---------------------------- MODULE Spec2Model ----------------------------
(***************************************************************************)
(* A model of the connection-establishment code of the `proxied` crate     *)
(* (src/src/connect.rs): the process-wide DNS cache RESOLVED_DNS with its  *)
(* round-robin cursor and eviction pass, resolve_dns with its              *)
(* release-lookup-reacquire locking, connect with its four stages, the two *)
(* handshake variants and the TCPConnection stream facade.                 *)
(***************************************************************************)
EXTENDS Integers, Sequences, FiniteSets, TLC

(***************************************************************************)
(* Bounds of the model.                                                    *)
(***************************************************************************)

\* CACHE_SIZE of connect.rs:271 is 1_000; the model runs the same code with
\* the capacity scaled down so that the eviction pass is reachable.
CACHE_SIZE == 2

\* CACHE_THRESHOLD, connect.rs:272 (integer division, as usize).
CACHE_THRESHOLD == CACHE_SIZE + CACHE_SIZE \div 2

\* The tasks that run concurrently on the runtime.
Tasks == {"t1", "t2"}

\* The domain names callers ask for.
Domains == {"d1", "d2", "d3", "d4", "d5"}

\* The port resolve_dns appends to the name it looks up (format!("{}:1")).
LOOKUP_PORT == 1

SocketAddr(ip, port) == [ip |-> ip, port |-> port]

\* What lookup_host may answer for a name (as IP lists): the answer of an
\* external resolver, which may differ between two lookups of one name.
Answers(d) ==
    CASE d = "d1" -> {<<"A", "B", "C">>}
      [] d = "d2" -> {<<"A", "B">>, <<>>}
      [] d = "d3" -> {<<"B", "A">>, <<"C">>}
      [] d = "d4" -> {<<>>}
      [] OTHER    -> {<<"A">>}

\* lookup_host(format!("{}:1", domain)).collect(): every answer carries port 1.
LookupHost(d) ==
    { [i \in 1..Len(ips) |-> SocketAddr(ips[i], LOOKUP_PORT)] : ips \in Answers(d) }

(***************************************************************************)
(* Results: Result<SocketAddr, ConnectError>.                              *)
(***************************************************************************)
NoAddr == SocketAddr("none", 0)

Ok(addr) == [kind |-> "Ok", addr |-> addr]

Err(kind) == [kind |-> kind, addr |-> NoAddr]

NoResult == [kind |-> "none", addr |-> NoAddr]

\* The lookup result of a task that has performed no lookup.
NoLookup == <<NoAddr>>

(***************************************************************************)
(* AddrRecord and name_present_dns.                                        *)
(***************************************************************************)
AddrRecord(items, next_item) == [items |-> items, next_item |-> next_item]

\* name_present_dns: the record after the call and the value returned.
\* items.get(next_item) is a checked access: out of range gives None, which
\* ok_or turns into DnsNameNotResolved before the cursor is touched.
name_present_dns(record) ==
    IF record.items = <<>>
    THEN [record |-> record, result |-> Err("DnsNameNotResolved")]
    ELSE IF record.next_item >= Len(record.items)
    THEN [record |-> record, result |-> Err("DnsNameNotResolved")]
    ELSE LET current == record.items[record.next_item + 1]
             inc     == record.next_item + 1
             next    == IF inc = Len(record.items) THEN inc + 1 ELSE inc
         IN  [record |-> AddrRecord(record.items, next), result |-> Ok(current)]

(***************************************************************************)
(* The eviction pass of resolve_dns.                                       *)
(***************************************************************************)
Size(map) == Cardinality(DOMAIN map)

Restrict(map, keys) == [k \in keys |-> map[k]]

Retain_OneTooMany(map, size_delta) ==
    { Restrict(map, keep) :
        keep \in { K \in SUBSET DOMAIN map :
                      Cardinality(K) = Size(map) - (size_delta + 1) } }

\* records_lock.retain(..): drops the first size_delta entries the map's
\* iteration meets; HashMap's iteration order is arbitrary, so any
\* size_delta entries may go.
Retain(map, size_delta) ==
    { Restrict(map, keep) :
        keep \in { K \in SUBSET DOMAIN map : Cardinality(K) = Size(map) - size_delta } }

EvictionPass_Never(map) == {map}

EvictionPass_AtThreshold(map) ==
    IF Size(map) >= CACHE_THRESHOLD
    THEN Retain(map, Size(map) - CACHE_SIZE)
    ELSE {map}

\* connect.rs:299-308: the maps the pass may leave.
EvictionPass(map) ==
    IF Size(map) > CACHE_THRESHOLD
    THEN Retain(map, Size(map) - CACHE_SIZE)
    ELSE {map}

Insert(map, d, record) ==
    [k \in DOMAIN map \cup {d} |-> IF k = d THEN record ELSE map[k]]

(***************************************************************************)
(* Proxy descriptors, targets and connect's results.                       *)
(***************************************************************************)
ProxyKinds == {"Socks5", "Socks4", "Http", "Https"}

Proxy(kind, addr, port, creds) ==
    [kind |-> kind, addr |-> addr, port |-> port, creds |-> creds]

NoProxy == Proxy("none", "-", 0, "none")

\* Proxy addresses a caller may pass: names and literals, well-formed or not.
ProxyAddrs == {"d1", "d2", "203.0.113.5", "203.0.113.5:1080", "999.0.0.1"}

ProxyPorts == {1080}

\* The literals among them that are IPv4 addresses.
IPv4Literals == {"203.0.113.5"}

Proxies ==
    { Proxy(k, a, p, c) :
        k \in ProxyKinds, a \in ProxyAddrs, p \in ProxyPorts,
        c \in {"none", "user:pass"} }

NetworkTarget(tag, host, port) == [tag |-> tag, host |-> host, port |-> port]

NoTarget == NetworkTarget("none", "-", 0)

Targets == { NetworkTarget("Domain", "d3", 443), NetworkTarget("IPAddr", "C", 443) }

\* Proxy::is_dns_addr: the address holds an alphabetic character (the names
\* of the model do, its literals do not).
IsDnsAddr(addr) == addr \in Domains

\* format!("{}:{}", &proxy.addr, proxy.port)
FormatAddrPort(addr, port) == addr \o ":" \o ToString(port)

\* SocketAddr::from_str on the texts the model's descriptors give: an IPv4
\* socket address is four octets of 0..255, a colon and a port.
SocketAddrFromStr(text) ==
    LET parses == { <<ip, port>> \in IPv4Literals \X ProxyPorts :
                      text = ip \o ":" \o ToString(port) }
    IN  IF parses # {}
        THEN LET a == CHOOSE a \in parses : TRUE IN Ok(SocketAddr(a[1], a[2]))
        ELSE Err("AddrParseError")

\* A ConnectError, or Ok, as connect returns it.
Return(kind, details) == [kind |-> kind, details |-> details]

NoReturn == Return("none", "-")

NoIo == [called |-> "none", inner |-> "none", innerResult |-> "none", result |-> "none"]

(***************************************************************************)
(* State.                                                                  *)
(***************************************************************************)
VARIABLES
    cache,      \* RESOLVED_DNS: the HashMap<String, AddrRecord>
    lock,       \* the task holding the Mutex of RESOLVED_DNS, or "free"
    pc,         \* each task's position
    dom,        \* resolve_dns's argument
    res,        \* resolve_request: what the task's lookup returned
    resolved,   \* what resolve_dns returned
    lastIdx,    \* history: per domain, the 1-based index of the address the
                \* entry handed out last (0: none since it was inserted)
    peak,       \* history: the greatest number of resolve_dns calls that
                \* have been in progress at the same time
    proxy,      \* connect's proxy descriptor
    target,     \* connect's NetworkTarget
    stages,     \* history: the stages of the call that have completed
    hs,         \* history: the handshake steps run and what each reported
    conn,       \* the raw proxy connection / the tunnel built on it
    peer,       \* the address TcpStream::connect was given
    ret,        \* what connect returned
    io          \* the last operation on the returned TCPConnection

resolveVars == <<cache, lock, dom, res, resolved, lastIdx, peak>>

connectVars == <<proxy, target, stages, hs, conn, peer, ret, io>>

vars == <<cache, lock, pc, dom, res, resolved, lastIdx, peak,
          proxy, target, stages, hs, conn, peer, ret, io>>

NoDomain == "-"

Init ==
    /\ cache = << >>
    /\ lock = "free"
    /\ pc = [t \in Tasks |-> "idle"]
    /\ dom = [t \in Tasks |-> NoDomain]
    /\ res = [t \in Tasks |-> NoLookup]
    /\ resolved = [t \in Tasks |-> NoResult]
    /\ lastIdx = [d \in Domains |-> 0]
    /\ peak = 0
    /\ proxy = [t \in Tasks |-> NoProxy]
    /\ target = [t \in Tasks |-> NoTarget]
    /\ stages = [t \in Tasks |-> <<>>]
    /\ hs = [t \in Tasks |-> <<>>]
    /\ conn = [t \in Tasks |-> "none"]
    /\ peer = [t \in Tasks |-> NoAddr]
    /\ ret = [t \in Tasks |-> NoReturn]
    /\ io = [t \in Tasks |-> NoIo]

(***************************************************************************)
(* resolve_dns, one action per step between two suspension points.         *)
(***************************************************************************)

\* History kept beside the cache: reset for the keys a step removes.
Track(map, hist) == [d \in Domains |-> IF d \in DOMAIN map THEN hist[d] ELSE 0]

\* The positions of a resolve_dns call that has not returned.
InResolve(t) == pc[t] \in {"lock1", "evict", "check", "lookup", "lock2", "insert"}

\* History: the calls in progress once task t has called resolve_dns, and
\* the greatest number seen with them.
InProgressWith(t) == Cardinality({u \in Tasks : u = t \/ InResolve(u)})

PeakWith(t) == IF InProgressWith(t) > peak THEN InProgressWith(t) ELSE peak

\* resolve_dns is called and waits for RESOLVED_DNS.lock().
CallResolve(t, d) ==
    /\ pc[t] = "idle"
    /\ pc' = [pc EXCEPT ![t] = "lock1"]
    /\ dom' = [dom EXCEPT ![t] = d]
    /\ peak' = PeakWith(t)
    /\ UNCHANGED <<cache, lock, res, resolved, lastIdx, connectVars>>

Acquire1_NoWait(t) ==
    /\ pc[t] = "lock1"
    /\ lock' = t
    /\ pc' = [pc EXCEPT ![t] = "evict"]
    /\ UNCHANGED <<cache, dom, res, resolved, lastIdx, peak, connectVars>>

\* connect.rs:296: the lock is granted.
Acquire1(t) ==
    /\ pc[t] = "lock1"
    /\ lock = "free"
    /\ lock' = t
    /\ pc' = [pc EXCEPT ![t] = "evict"]
    /\ UNCHANGED <<cache, dom, res, resolved, lastIdx, peak, connectVars>>

\* connect.rs:299-308: the eviction pass.
Evict(t) ==
    /\ pc[t] = "evict"
    /\ \E map \in EvictionPass(cache) :
          /\ cache' = map
          /\ lastIdx' = Track(map, lastIdx)
    /\ pc' = [pc EXCEPT ![t] = "check"]
    /\ UNCHANGED <<lock, dom, res, resolved, peak, connectVars>>

Hit_Refresh(t) ==
    /\ pc[t] = "check"
    /\ dom[t] \in DOMAIN cache
    /\ lock' = "free"
    /\ pc' = [pc EXCEPT ![t] = "lookup"]
    /\ UNCHANGED <<cache, dom, res, resolved, lastIdx, peak, connectVars>>

\* connect.rs:310-311: the entry is present; select under the same lock.
\* The guard returned from lock() is dropped when resolve_dns returns.
Hit(t) ==
    /\ pc[t] = "check"
    /\ dom[t] \in DOMAIN cache
    /\ LET out == name_present_dns(cache[dom[t]])
       IN  /\ cache' = [cache EXCEPT ![dom[t]] = out.record]
           /\ resolved' = [resolved EXCEPT ![t] = out.result]
           /\ lastIdx' = [lastIdx EXCEPT ![dom[t]] =
                             IF out.result.kind = "Ok"
                             THEN cache[dom[t]].next_item + 1
                             ELSE @]
    /\ lock' = "free"
    /\ pc' = [pc EXCEPT ![t] = "resolved"]
    /\ UNCHANGED <<dom, res, peak, connectVars>>

Miss_KeepsLock(t) ==
    /\ pc[t] = "check"
    /\ dom[t] \notin DOMAIN cache
    /\ pc' = [pc EXCEPT ![t] = "lookup"]
    /\ UNCHANGED <<cache, lock, dom, res, resolved, lastIdx, peak, connectVars>>

\* connect.rs:312-314: the entry is absent; drop(records_lock).
Miss(t) ==
    /\ pc[t] = "check"
    /\ dom[t] \notin DOMAIN cache
    /\ lock' = "free"
    /\ pc' = [pc EXCEPT ![t] = "lookup"]
    /\ UNCHANGED <<cache, dom, res, resolved, lastIdx, peak, connectVars>>

\* connect.rs:316-317: lookup_host answers.
LookupOk(t) ==
    /\ pc[t] = "lookup"
    /\ \E items \in LookupHost(dom[t]) : res' = [res EXCEPT ![t] = items]
    /\ pc' = [pc EXCEPT ![t] = "lock2"]
    /\ UNCHANGED <<cache, lock, dom, resolved, lastIdx, peak, connectVars>>

LookupErr_CachesEmpty(t) ==
    /\ pc[t] = "lookup"
    /\ lock = "free"
    /\ cache' = IF dom[t] \in DOMAIN cache
                THEN cache
                ELSE Insert(cache, dom[t], AddrRecord(<<>>, 0))
    /\ resolved' = [resolved EXCEPT ![t] = Err("IO")]
    /\ pc' = [pc EXCEPT ![t] = "resolved"]
    /\ UNCHANGED <<lock, dom, res, lastIdx, peak, connectVars>>

\* connect.rs:317: lookup_host fails; `?` returns the io::Error as IO.
LookupErr(t) ==
    /\ pc[t] = "lookup"
    /\ resolved' = [resolved EXCEPT ![t] = Err("IO")]
    /\ pc' = [pc EXCEPT ![t] = "resolved"]
    /\ UNCHANGED <<cache, lock, dom, res, lastIdx, peak, connectVars>>

\* connect.rs:320: the lock is granted again.
Acquire2(t) ==
    /\ pc[t] = "lock2"
    /\ lock = "free"
    /\ lock' = t
    /\ pc' = [pc EXCEPT ![t] = "insert"]
    /\ UNCHANGED <<cache, dom, res, resolved, lastIdx, peak, connectVars>>

InsertSelect_KeepsLock(t) ==
    /\ pc[t] = "insert"
    /\ LET map == IF dom[t] \in DOMAIN cache
                  THEN cache
                  ELSE Insert(cache, dom[t], AddrRecord(res[t], 0))
           out == name_present_dns(map[dom[t]])
       IN  /\ cache' = [map EXCEPT ![dom[t]] = out.record]
           /\ resolved' = [resolved EXCEPT ![t] = out.result]
           /\ lastIdx' = [lastIdx EXCEPT ![dom[t]] =
                             IF out.result.kind = "Ok"
                             THEN map[dom[t]].next_item + 1
                             ELSE @]
    /\ pc' = [pc EXCEPT ![t] = "resolved"]
    /\ UNCHANGED <<lock, dom, res, peak, connectVars>>

InsertIfAbsent_Overwrite(map, d, items) ==
    Insert(map, d, AddrRecord(items, 0))

InsertIfAbsent_SkipEmpty(map, d, items) ==
    IF d \notin DOMAIN map /\ items # <<>>
    THEN Insert(map, d, AddrRecord(items, 0))
    ELSE map

\* connect.rs:328-336: insert the fresh list if the key is still absent.
InsertIfAbsent(map, d, items) ==
    IF d \notin DOMAIN map THEN Insert(map, d, AddrRecord(items, 0)) ELSE map

\* connect.rs:338: records_lock.get_mut(domain).unwrap() panics on None;
\* the unwinding drops the guard (a tokio Mutex is not poisoned).
SelectInserted(map, d) ==
    IF d \in DOMAIN map
    THEN name_present_dns(map[d])
    ELSE [record |-> AddrRecord(<<>>, 0), result |-> Err("Panic")]

\* connect.rs:328-338: insert if absent, select, return (the guard drops).
InsertSelect(t) ==
    /\ pc[t] = "insert"
    /\ LET map == InsertIfAbsent(cache, dom[t], res[t])
           out == SelectInserted(map, dom[t])
       IN  /\ cache' = IF dom[t] \in DOMAIN map
                       THEN [map EXCEPT ![dom[t]] = out.record]
                       ELSE map
           /\ resolved' = [resolved EXCEPT ![t] = out.result]
           /\ lastIdx' = [lastIdx EXCEPT ![dom[t]] =
                             IF out.result.kind = "Ok"
                             THEN map[dom[t]].next_item + 1
                             ELSE @]
    /\ lock' = "free"
    /\ pc' = [pc EXCEPT ![t] = "resolved"]
    /\ UNCHANGED <<dom, res, peak, connectVars>>

\* The caller has taken the result; the task is free for its next call.
ResolveReturn(t) ==
    /\ pc[t] = "resolved"
    /\ proxy[t] = NoProxy
    /\ pc' = [pc EXCEPT ![t] = "idle"]
    /\ dom' = [dom EXCEPT ![t] = NoDomain]
    /\ res' = [res EXCEPT ![t] = NoLookup]
    /\ resolved' = [resolved EXCEPT ![t] = NoResult]
    /\ UNCHANGED <<cache, lock, lastIdx, peak, connectVars>>

Resolve(t) ==
    \/ Acquire1(t)
    \/ Evict(t)
    \/ Hit(t)
    \/ Miss(t)
    \/ LookupOk(t)
    \/ LookupErr(t)
    \/ Acquire2(t)
    \/ InsertSelect(t)

Next ==
    \E t \in Tasks :
        \/ \E d \in Domains : CallResolve(t, d)
        \/ Resolve(t)
        \/ ResolveReturn(t)

Spec == Init /\ [][Next]_vars

(***************************************************************************)
(* connect.                                                                *)
(***************************************************************************)
Stage(name, ok) == [stage |-> name, ok |-> ok]

Step(variant, step, out) == [variant |-> variant, step |-> step, out |-> out]

Variant_Socks5Only(kind) ==
    IF kind = "Socks5" THEN "socks" ELSE "http"

\* connect.rs:350-357: the handshake variant a proxy kind selects.
Variant(kind) ==
    IF kind \in {"Socks5", "Socks4"} THEN "socks" ELSE "http"

UsesResolver_Always(p) == TRUE

\* connect.rs:343: match proxy.is_dns_addr().
UsesResolver(p) == IsDnsAddr(p.addr)

\* connect.rs:342-347: connect is called. A name goes to resolve_dns, a
\* literal is parsed on the spot and `?` returns FailedAddrParsing.
ConnectCall(t, p, tg) ==
    /\ pc[t] = "idle"
    /\ proxy' = [proxy EXCEPT ![t] = p]
    /\ target' = [target EXCEPT ![t] = tg]
    /\ IF UsesResolver(p)
       THEN /\ dom' = [dom EXCEPT ![t] = p.addr]
            /\ pc' = [pc EXCEPT ![t] = "lock1"]
            /\ peak' = PeakWith(t)
            /\ UNCHANGED <<resolved, stages, ret>>
       ELSE LET parsed == SocketAddrFromStr(FormatAddrPort(p.addr, p.port))
            IN  /\ stages' = [stages EXCEPT ![t] = <<Stage("resolve", parsed.kind = "Ok")>>]
                /\ IF parsed.kind = "Ok"
                   THEN /\ resolved' = [resolved EXCEPT ![t] = parsed]
                        /\ pc' = [pc EXCEPT ![t] = "tcp"]
                        /\ UNCHANGED ret
                   ELSE /\ ret' = [ret EXCEPT ![t] = Return("FailedAddrParsing", "-")]
                        /\ pc' = [pc EXCEPT ![t] = "done"]
                        /\ UNCHANGED resolved
                /\ UNCHANGED <<dom, peak>>
    /\ UNCHANGED <<cache, lock, res, lastIdx, hs, conn, peer, io>>

\* connect.rs:344: resolve_dns has returned; `?` returns its error.
ConnectResolved(t) ==
    /\ pc[t] = "resolved"
    /\ proxy[t] # NoProxy
    /\ stages' = [stages EXCEPT ![t] = Append(@, Stage("resolve", resolved[t].kind = "Ok"))]
    /\ IF resolved[t].kind = "Ok"
       THEN /\ pc' = [pc EXCEPT ![t] = "tcp"]
            /\ UNCHANGED ret
       ELSE /\ ret' = [ret EXCEPT ![t] = Return(resolved[t].kind, "-")]
            /\ pc' = [pc EXCEPT ![t] = "done"]
    /\ UNCHANGED <<resolveVars, proxy, target, hs, conn, peer, io>>

\* connect.rs:349: TcpStream::connect(resolved_addr) succeeds.
TcpConnectOk(t) ==
    /\ pc[t] = "tcp"
    /\ peer' = [peer EXCEPT ![t] = resolved[t].addr]
    /\ conn' = [conn EXCEPT ![t] = "TcpStream"]
    /\ stages' = [stages EXCEPT ![t] = Append(@, Stage("tcp", TRUE))]
    /\ pc' = [pc EXCEPT ![t] = "handshake"]
    /\ UNCHANGED <<resolveVars, proxy, target, hs, ret, io>>

TcpConnectErr_Retry(t) ==
    /\ pc[t] = "tcp"
    /\ Len(stages[t]) < 3
    /\ peer' = [peer EXCEPT ![t] = resolved[t].addr]
    /\ stages' = [stages EXCEPT ![t] = Append(@, Stage("tcp", FALSE))]
    /\ UNCHANGED <<resolveVars, pc, proxy, target, hs, conn, ret, io>>

\* connect.rs:349: TcpStream::connect fails; `?` returns the io::Error.
TcpConnectErr(t) ==
    /\ pc[t] = "tcp"
    /\ peer' = [peer EXCEPT ![t] = resolved[t].addr]
    /\ stages' = [stages EXCEPT ![t] = Append(@, Stage("tcp", FALSE))]
    /\ ret' = [ret EXCEPT ![t] = Return("IO", "-")]
    /\ pc' = [pc EXCEPT ![t] = "done"]
    /\ UNCHANGED <<resolveVars, proxy, target, hs, conn, io>>

\* What a call of fast_socks5 may report: Ok or a SocksError.
SocksOutcomes ==
    {"Ok", "AuthMethodUnacceptable", "UnsupportedSocksVersion",
     "AuthenticationFailed", "AuthenticationRejected", "ExceededMaxDomainLen",
     "Other"}

\* connect.rs:131-153: the error of Socks5Stream::use_stream, as returned.
UseStreamError(out) ==
    CASE out = "AuthMethodUnacceptable"  -> Return("AuthMethodUnacceptable", "-")
      [] out = "UnsupportedSocksVersion" -> Return("WrongProtocol", "-")
      [] out = "AuthenticationFailed"    -> Return("AuthFailed", "Some")
      [] out = "AuthenticationRejected"  -> Return("AuthFailed", "Some")
      [] OTHER                           -> Return("Socks", "-")

\* connect.rs:159-165: the error of stream.request, as returned.
RequestError(out) ==
    CASE out = "ExceededMaxDomainLen" -> Return("ExceededMaxDomainLen", "-")
      [] OTHER                        -> Return("Socks", "-")

HandshakeFails_KeepsConn(t, error) ==
    /\ ret' = [ret EXCEPT ![t] = error]
    /\ UNCHANGED conn
    /\ stages' = [stages EXCEPT ![t] = Append(@, Stage("handshake", FALSE))]
    /\ pc' = [pc EXCEPT ![t] = "done"]

\* A handshake step failed: the variant returns the error and the proxy
\* connection it owns is dropped.
HandshakeFails(t, error) ==
    /\ ret' = [ret EXCEPT ![t] = error]
    /\ conn' = [conn EXCEPT ![t] = "dropped"]
    /\ stages' = [stages EXCEPT ![t] = Append(@, Stage("handshake", FALSE))]
    /\ pc' = [pc EXCEPT ![t] = "done"]

\* connect.rs:117-153: SocksProtocol::new, Socks5Stream::use_stream.
SocksUseStream(t) ==
    /\ pc[t] = "handshake"
    /\ Variant(proxy[t].kind) = "socks"
    /\ \E out \in SocksOutcomes :
          /\ hs' = [hs EXCEPT ![t] = Append(@, Step("socks", "use_stream", out))]
          /\ IF out = "Ok"
             THEN /\ conn' = [conn EXCEPT ![t] = "Socks5Stream"]
                  /\ pc' = [pc EXCEPT ![t] = "request"]
                  /\ UNCHANGED <<ret, stages>>
             ELSE HandshakeFails(t, UseStreamError(out))
    /\ UNCHANGED <<resolveVars, proxy, target, peer, io>>

\* connect.rs:155-165: SocksProtocol::new, stream.request(TCPConnect, target).
SocksRequest(t) ==
    /\ pc[t] = "request"
    /\ \E out \in SocksOutcomes :
          /\ hs' = [hs EXCEPT ![t] = Append(@, Step("socks", "request", out))]
          /\ IF out = "Ok"
             THEN /\ stages' = [stages EXCEPT ![t] = Append(@, Stage("handshake", TRUE))]
                  /\ pc' = [pc EXCEPT ![t] = "wrap"]
                  /\ UNCHANGED <<ret, conn>>
             ELSE HandshakeFails(t, RequestError(out))
    /\ UNCHANGED <<resolveVars, proxy, target, peer, io>>

\* What http_connect_tokio(_with_basic_auth) may report: Ok or an HttpError.
HttpOutcomes == {"Ok", "IoError", "HttpCode200_407", "HttpCode200_500", "Other"}

HttpError_No407(out) ==
    CASE out = "IoError" -> Return("IO", "-")
      [] OTHER           -> Return("Http", "-")

\* connect.rs:207-215: the error of the CONNECT request, as returned.
HttpError(out) ==
    CASE out = "IoError"         -> Return("IO", "-")
      [] out = "HttpCode200_407" -> Return("AuthFailed", "None")
      [] OTHER                   -> Return("Http", "-")

\* connect.rs:185-217: HttpProtocol::new.
HttpConnect(t) ==
    /\ pc[t] = "handshake"
    /\ Variant(proxy[t].kind) = "http"
    /\ \E out \in HttpOutcomes :
          /\ hs' = [hs EXCEPT ![t] =
                       Append(@, Step("http",
                                      IF proxy[t].creds = "none"
                                      THEN "http_connect_tokio"
                                      ELSE "http_connect_tokio_with_basic_auth",
                                      out))]
          /\ IF out = "Ok"
             THEN /\ stages' = [stages EXCEPT ![t] = Append(@, Stage("handshake", TRUE))]
                  /\ pc' = [pc EXCEPT ![t] = "wrap"]
                  /\ UNCHANGED <<ret, conn>>
             ELSE HandshakeFails(t, HttpError(out))
    /\ UNCHANGED <<resolveVars, proxy, target, peer, io>>

\* connect.rs:359: Ok(TCPConnection(conn)).
Wrap(t) ==
    /\ pc[t] = "wrap"
    /\ stages' = [stages EXCEPT ![t] = Append(@, Stage("wrap", TRUE))]
    /\ ret' = [ret EXCEPT ![t] = Return("Ok", "-")]
    /\ pc' = [pc EXCEPT ![t] = "done"]
    /\ UNCHANGED <<resolveVars, proxy, target, hs, conn, peer, io>>

(***************************************************************************)
(* TCPConnection, the stream returned.                                     *)
(***************************************************************************)
StreamOps == {"poll_read", "poll_write", "poll_flush", "poll_shutdown"}

PollResults == {"Pending", "Ready(Ok)", "Ready(Err)"}

\* connect.rs:228-264: the method of the wrapped tunnel each method of
\* TCPConnection calls.
Forwards(op) ==
    CASE op = "poll_read"     -> "poll_read"
      [] op = "poll_write"    -> "poll_write"
      [] op = "poll_flush"    -> "poll_flush"
      [] op = "poll_shutdown" -> "poll_flush"

\* The caller polls an operation of the stream connect returned; the tunnel
\* answers r and the facade returns what the tunnel answered.
StreamOp(t, op, r) ==
    /\ pc[t] = "done"
    /\ ret[t].kind = "Ok"
    /\ conn[t] \in {"TcpStream", "Socks5Stream"}
    /\ io' = [io EXCEPT ![t] =
                 [called |-> op, inner |-> Forwards(op), innerResult |-> r, result |-> r]]
    /\ conn' = [conn EXCEPT ![t] =
                   IF Forwards(op) = "poll_shutdown" /\ r = "Ready(Ok)" THEN "shutdown" ELSE @]
    /\ UNCHANGED <<resolveVars, pc, proxy, target, stages, hs, peer, ret>>

\* The caller is done with the result (and drops the stream, if any).
ConnectReturn(t) ==
    /\ pc[t] = "done"
    /\ pc' = [pc EXCEPT ![t] = "idle"]
    /\ dom' = [dom EXCEPT ![t] = NoDomain]
    /\ res' = [res EXCEPT ![t] = NoLookup]
    /\ resolved' = [resolved EXCEPT ![t] = NoResult]
    /\ proxy' = [proxy EXCEPT ![t] = NoProxy]
    /\ target' = [target EXCEPT ![t] = NoTarget]
    /\ stages' = [stages EXCEPT ![t] = <<>>]
    /\ hs' = [hs EXCEPT ![t] = <<>>]
    /\ conn' = [conn EXCEPT ![t] = "none"]
    /\ peer' = [peer EXCEPT ![t] = NoAddr]
    /\ ret' = [ret EXCEPT ![t] = NoReturn]
    /\ io' = [io EXCEPT ![t] = NoIo]
    /\ UNCHANGED <<cache, lock, lastIdx, peak>>

Connect(t) ==
    \/ ConnectResolved(t)
    \/ TcpConnectOk(t)
    \/ TcpConnectErr(t)
    \/ SocksUseStream(t)
    \/ SocksRequest(t)
    \/ HttpConnect(t)
    \/ Wrap(t)

\* One caller running connect, and using the stream it gets.
NextConnect ==
    \/ \E p \in Proxies, tg \in Targets : ConnectCall("t1", p, tg)
    \/ Resolve("t1")
    \/ Connect("t1")
    \/ \E op \in StreamOps, r \in PollResults : StreamOp("t1", op, r)
    \/ ConnectReturn("t1")

SpecConnect == Init /\ [][NextConnect]_vars

\* Calls made one after another: a single task.
NextSeq ==
    \/ \E d \in Domains : CallResolve("t1", d)
    \/ Resolve("t1")
    \/ ResolveReturn("t1")

SpecSeq == Init /\ [][NextSeq]_vars

(***************************************************************************)
(* Claims on the cache and the resolver.                                   *)
(***************************************************************************)

\* A step in which task t runs the round-robin selection.
Selects(t) == pc[t] \in {"check", "insert"} /\ pc'[t] = "resolved"

\* C1: round-robin cycle. Every selection on an entry with n >= 1 addresses
\* returns the address after the one the entry handed out last, wrapping
\* from the last address to the first: the k-th consecutive resolve returns
\* the element at index (k-1) mod n.
C1_RoundRobinCycle ==
    [][\A t \in Tasks :
          Selects(t) =>
            LET items == cache'[dom[t]].items
                n     == Len(items)
            IN  n >= 1 => resolved'[t] = Ok(items[(lastIdx[dom[t]] % n) + 1])]_vars

\* The entry of d1 after its three addresses were handed out: the cursor is
\* past the end and the next selection finds nothing.
C1_CursorPastEnd ==
    /\ "d1" \in DOMAIN cache
    /\ cache["d1"].next_item > Len(cache["d1"].items)

\* Task t has returned from a first-time resolve whose lookup answered.
FirstTime(t) == pc[t] = "resolved" /\ res[t] # NoLookup

\* C2: cache population is idempotent under race. When two tasks have both
\* resolved the same new domain first-time (both passed the entry-absent
\* check, both lookups returned a non-empty list), the cache holds one entry
\* for the domain and both calls returned an address of that entry.
C2_RaceBothResolve ==
    \A t1, t2 \in Tasks :
        ( /\ t1 # t2
          /\ FirstTime(t1) /\ FirstTime(t2)
          /\ dom[t1] = dom[t2]
          /\ res[t1] # <<>> /\ res[t2] # <<>> )
        => /\ dom[t1] \in DOMAIN cache
           /\ \A t \in {t1, t2} :
                 /\ resolved[t].kind = "Ok"
                 /\ \E i \in 1..Len(cache[dom[t]].items) :
                       resolved[t].addr = cache[dom[t]].items[i]

\* C3 as claimed: whenever a step removes entries (an eviction pass runs),
\* the cache held at most HIGH_WATER entries.
C3_EvictionAtMostHighWater ==
    [][Size(cache') < Size(cache) => Size(cache) <= CACHE_THRESHOLD]_vars

\* C3 as amended: with calls made one after another, whenever a step
\* removes entries the cache held exactly HIGH_WATER + 1 entries.
C3_EvictionAtHighWaterPlusOne ==
    [][Size(cache') < Size(cache) => Size(cache) = CACHE_THRESHOLD + 1]_vars

\* An eviction pass is about to run on a cache over the high-water mark.
C3_EvictionRuns ==
    \E t \in Tasks : pc[t] = "evict" /\ Size(cache) = CACHE_THRESHOLD + 1

\* C4: the eviction pass removes entries exactly when the size exceeds
\* HIGH_WATER when the lock is taken; it then leaves exactly CAPACITY
\* entries, each an unchanged entry of the cache before the pass; at or
\* below HIGH_WATER it removes nothing, and no other step removes an entry.
C4_EvictionResult ==
    [][/\ \A t \in Tasks :
            (pc[t] = "evict" /\ pc'[t] = "check") =>
               IF Size(cache) > CACHE_THRESHOLD
               THEN /\ Size(cache') = CACHE_SIZE
                    /\ DOMAIN cache' \subseteq DOMAIN cache
                    /\ \A k \in DOMAIN cache' : cache'[k] = cache[k]
               ELSE cache' = cache
       /\ (DOMAIN cache \ DOMAIN cache' # {}) =>
            \E t \in Tasks : /\ pc[t] = "evict" /\ pc'[t] = "check"
                              /\ lock = t
                              /\ Size(cache) > CACHE_THRESHOLD]_vars

\* A pass has run: the lock holder stands right after it with CAPACITY
\* entries, while another task still holds the address of an entry that is
\* gone.
C4_AfterEviction ==
    \E t, u \in Tasks :
        /\ pc[t] = "check" /\ Size(cache) = CACHE_SIZE
        /\ pc[u] = "resolved" /\ resolved[u].kind = "Ok"
        /\ dom[u] \notin DOMAIN cache

\* C5 as claimed: a resolve whose lookup returned zero addresses returns
\* DnsNameNotResolved and leaves an empty record or no record for the
\* domain.
C5_EmptyLookupNotResolved ==
    \A t \in Tasks :
        (pc[t] = "resolved" /\ res[t] = <<>>) =>
            /\ resolved[t] = Err("DnsNameNotResolved")
            /\ (dom[t] \in DOMAIN cache => cache[dom[t]].items = <<>>)

\* C5 as amended: a resolve whose lookup returned zero addresses and that
\* finds the domain still absent on reacquiring the lock stores an empty
\* record with cursor 0 and returns DnsNameNotResolved; every selection on
\* an empty record returns DnsNameNotResolved and leaves the record as it
\* is; and no resolve panics.
C5_EmptyRecordTolerated ==
    [][\A t \in Tasks :
          Selects(t) =>
            /\ resolved'[t].kind \in {"Ok", "DnsNameNotResolved"}
            /\ (pc[t] = "insert" /\ res[t] = <<>> /\ dom[t] \notin DOMAIN cache) =>
                  /\ dom[t] \in DOMAIN cache'
                  /\ cache'[dom[t]] = AddrRecord(<<>>, 0)
            /\ (dom[t] \in DOMAIN cache' /\ cache'[dom[t]].items = <<>>) =>
                  /\ resolved'[t] = Err("DnsNameNotResolved")
                  /\ cache'[dom[t]].next_item = 0]_vars

\* A later resolve of a domain whose record is empty has returned from the
\* cache-hit path.
C5_SubsequentOnEmpty ==
    \E t \in Tasks :
        /\ pc[t] = "resolved" /\ res[t] = NoLookup
        /\ dom[t] \in DOMAIN cache
        /\ cache[dom[t]].items = <<>>
        /\ resolved[t] = Err("DnsNameNotResolved")

(***************************************************************************)
(* Claims on connect and the stream it returns.                            *)
(***************************************************************************)
ResolverPositions == {"lock1", "evict", "check", "lookup", "lock2", "insert", "resolved"}

\* C6: literal-address bypass. While a connect whose proxy address is not a
\* name is in progress, no step takes the cache lock, performs a lookup or
\* changes the cache; the call fails with FailedAddrParsing exactly when
\* the address is no socket-address literal, and then no TCP connection was
\* opened and no handshake step ran.
C6_LiteralBypass ==
    [][\A t \in Tasks :
          (proxy'[t] # NoProxy /\ ~IsDnsAddr(proxy'[t].addr)) =>
            /\ cache' = cache
            /\ lock = "free" /\ lock' = "free"
            /\ pc'[t] \notin ResolverPositions
            /\ dom'[t] = NoDomain /\ res'[t] = NoLookup
            /\ (ret'[t].kind = "FailedAddrParsing") <=>
                  (proxy'[t].addr \notin IPv4Literals)
            /\ (ret'[t].kind = "FailedAddrParsing") =>
                  /\ pc'[t] = "done"
                  /\ peer'[t] = NoAddr /\ conn'[t] = "none" /\ hs'[t] = <<>>
                  /\ stages'[t] = <<Stage("resolve", FALSE)>>]_vars

\* A connect to a malformed literal has failed while the cache holds
\* entries.
C6_MalformedLiteralFailed ==
    \E t \in Tasks :
        /\ pc[t] = "done"
        /\ proxy[t].addr = "203.0.113.5:1080"
        /\ ret[t].kind = "FailedAddrParsing"
        /\ Size(cache) > 0

\* C7: domain targets are cached. A connect whose target is a Domain has
\* created or reused a cache entry for the target's domain by the time it
\* returns a stream.
C7_DomainTargetCached ==
    \A t \in Tasks :
        (pc[t] = "done" /\ ret[t].kind = "Ok" /\ target[t].tag = "Domain") =>
            target[t].host \in DOMAIN cache

\* C8: stream facade forwarding. Each operation of the returned stream
\* calls the same operation of the wrapped tunnel and returns its result
\* unchanged; a completed shutdown of the facade has shut the tunnel down.
C8_FacadeForwards ==
    \A t \in Tasks :
        io[t] # NoIo =>
            /\ io[t].inner = io[t].called
            /\ io[t].result = io[t].innerResult
            /\ (io[t].called = "poll_shutdown" /\ io[t].result = "Ready(Ok)") =>
                  conn[t] = "shutdown"

Pipeline == <<"resolve", "tcp", "handshake", "wrap">>

\* The error kinds each stage can fail with.
StageErrors(stage) ==
    CASE stage = "resolve"   -> {"DnsNameNotResolved", "IO", "FailedAddrParsing"}
      [] stage = "tcp"       -> {"IO"}
      [] stage = "handshake" -> {"IO", "Http", "Socks", "AuthFailed",
                                 "AuthMethodUnacceptable", "WrongProtocol",
                                 "ExceededMaxDomainLen"}
      [] OTHER               -> {}

\* C9: no retry, fail fast. The stages a call has completed are a prefix of
\* resolve, tcp, handshake, wrap (each at most once, in that order); only
\* the last of them can have failed, and then the call has returned that
\* stage's error; the call returns Ok exactly when all four succeeded.
C9_FailFastPipeline ==
    \A t \in Tasks :
        LET s == stages[t]
            n == Len(s)
        IN  /\ n <= Len(Pipeline)
            /\ \A i \in 1..n : s[i].stage = Pipeline[i] /\ (i < n => s[i].ok)
            /\ (n > 0 /\ ~s[n].ok) =>
                  /\ pc[t] = "done"
                  /\ ret[t].kind \in StageErrors(s[n].stage)
            /\ (ret[t].kind = "Ok") <=> (n = Len(Pipeline) /\ s[n].ok)
            /\ (ret[t].kind # "none") =>
                  /\ pc[t] = "done"
                  /\ n > 0
                  /\ (ret[t].kind # "Ok" => ~s[n].ok)

\* A call has returned the failure of its TCP connect: the resolution
\* succeeded, and neither handshake nor wrap ran.
C9_TcpFailureReturned ==
    \E t \in Tasks :
        /\ pc[t] = "done"
        /\ stages[t] = <<Stage("resolve", TRUE), Stage("tcp", FALSE)>>
        /\ ret[t].kind = "IO"
        /\ hs[t] = <<>>

\* C10: protocol dispatch. Every handshake step a call runs belongs to the
\* SOCKS variant if the kind is SOCKS4 or SOCKS5 and to the HTTP-CONNECT
\* variant if it is HTTP or HTTPS; the steps run over the opened proxy
\* connection, each at most once; a call that passed the handshake ran one;
\* and a SOCKS5 call with credentials whose two steps both succeed returns
\* Ok with the SOCKS stream as its tunnel.
C10_ProtocolDispatch ==
    \A t \in Tasks :
        LET h == hs[t]
            k == proxy[t].kind
        IN  /\ \A i \in 1..Len(h) :
                  /\ (h[i].variant = "socks") <=> (k \in {"Socks4", "Socks5"})
                  /\ (h[i].variant = "http") <=> (k \in {"Http", "Https"})
            /\ h # <<>> => peer[t] # NoAddr
            /\ \/ h = <<>>
               \/ Len(h) = 1 /\ h[1].step \in {"use_stream", "http_connect_tokio",
                                                 "http_connect_tokio_with_basic_auth"}
               \/ Len(h) = 2 /\ h[1].step = "use_stream" /\ h[2].step = "request"
            /\ (pc[t] = "wrap" \/ ret[t].kind = "Ok") => h # <<>>
            /\ ( /\ pc[t] = "done" /\ k = "Socks5" /\ proxy[t].creds # "none"
                 /\ Len(h) = 2 /\ h[1].out = "Ok" /\ h[2].out = "Ok" )
               => /\ ret[t].kind = "Ok"
                  /\ conn[t] \in {"Socks5Stream", "shutdown"}

\* A SOCKS5 call with credentials has returned a stream and a write on it
\* has completed.
C10_Socks5StreamUsed ==
    \E t \in Tasks :
        /\ pc[t] = "done"
        /\ proxy[t].kind = "Socks5" /\ proxy[t].creds = "user:pass"
        /\ ret[t].kind = "Ok"
        /\ conn[t] = "Socks5Stream"
        /\ io[t].called = "poll_write" /\ io[t].result = "Ready(Ok)"

(***************************************************************************)
(* Claims on the handshake variants.                                       *)
(***************************************************************************)

\* The handshake step a call ran last.
LastStep(t) == hs[t][Len(hs[t])]

\* A call has returned after its last handshake step, of the given
\* variant, reported a failure.
HandshakeFailed(t, variant) ==
    /\ pc[t] = "done"
    /\ hs[t] # <<>>
    /\ LastStep(t).variant = variant
    /\ LastStep(t).out # "Ok"

\* C11: SOCKS error normalization. Whichever step of the SOCKS variant
\* reported the failure, connect returns AuthMethodUnacceptable for an
\* unacceptable method, AuthFailed with details for a failed or rejected
\* authentication, WrongProtocol for an unsupported version,
\* ExceededMaxDomainLen for a too long domain, and Socks for any other.
C11_SocksErrorNormalized ==
    \A t \in Tasks :
        HandshakeFailed(t, "socks") =>
            LET out == LastStep(t).out
            IN  ret[t] =
                  CASE out = "AuthMethodUnacceptable"  -> Return("AuthMethodUnacceptable", "-")
                    [] out = "AuthenticationFailed"    -> Return("AuthFailed", "Some")
                    [] out = "AuthenticationRejected"  -> Return("AuthFailed", "Some")
                    [] out = "UnsupportedSocksVersion" -> Return("WrongProtocol", "-")
                    [] out = "ExceededMaxDomainLen"    -> Return("ExceededMaxDomainLen", "-")
                    [] OTHER                           -> Return("Socks", "-")

\* C12: HTTP error normalization. With or without credentials, a CONNECT
\* that reports status 407 makes connect return AuthFailed without details,
\* an I/O failure the IO kind, any other failure the Http kind; and a call
\* of the HTTP variant gets past the handshake only if CONNECT reported Ok.
C12_HttpErrorNormalized ==
    \A t \in Tasks :
        /\ HandshakeFailed(t, "http") =>
              LET out == LastStep(t).out
              IN  /\ conn[t] = "dropped"
                  /\ ret[t] =
                        CASE out = "HttpCode200_407" -> Return("AuthFailed", "None")
                          [] out = "IoError"         -> Return("IO", "-")
                          [] OTHER                   -> Return("Http", "-")
        /\ ( /\ Variant(proxy[t].kind) = "http"
             /\ (pc[t] = "wrap" \/ ret[t].kind = "Ok") )
           => /\ Len(hs[t]) = 1
              /\ hs[t][1].out = "Ok"
              /\ hs[t][1].step = IF proxy[t].creds = "none"
                                 THEN "http_connect_tokio"
                                 ELSE "http_connect_tokio_with_basic_auth"

\* An HTTP proxy has answered a CONNECT carrying credentials with 407.
C12_ProxyAuthRequired ==
    \E t \in Tasks :
        /\ HandshakeFailed(t, "http")
        /\ proxy[t].creds = "user:pass"
        /\ LastStep(t).out = "HttpCode200_407"
        /\ ret[t] = Return("AuthFailed", "None")

(***************************************************************************)
(* Claims on the locking of resolve_dns.                                   *)
(***************************************************************************)

\* The positions of resolve_dns between lock().await returning and the
\* guard being dropped.
Holding(t) == pc[t] \in {"evict", "check", "insert"}

OtherTask(t) == CHOOSE u \in Tasks : u # t

\* C13: lock released around lookup. No task that is performing its lookup,
\* or has completed it and waits to reacquire, holds the cache lock; a task
\* holds it again only once it has passed the reacquire.
C13_LockReleasedAroundLookup ==
    \A t \in Tasks :
        /\ pc[t] \in {"lookup", "lock2"} => lock # t
        /\ lock = t => pc[t] \in {"evict", "check", "insert"}

\* A task is in its lookup while the other task holds the lock.
C13_LookupWhileOtherHolds ==
    \E t \in Tasks : pc[t] = "lookup" /\ lock = OtherTask(t)

\* C14: insert-if-absent after reacquire. A resolve that finds an entry for
\* its domain when it reacquires the lock keeps that entry: the list is the
\* one it was, the cursor is not set back, the address returned is the one
\* the existing cursor points at, and no other entry changes. Only if the
\* domain is still absent is the freshly resolved list inserted, and the
\* selection then starts at its first address.
C14_InsertIfAbsent ==
    [][\A t \in Tasks :
          (pc[t] = "insert" /\ pc'[t] = "resolved") =>
            LET d == dom[t]
            IN  /\ \A k \in DOMAIN cache \ {d} :
                      k \in DOMAIN cache' /\ cache'[k] = cache[k]
                /\ DOMAIN cache' = DOMAIN cache \cup {d}
                /\ IF d \in DOMAIN cache
                   THEN /\ cache'[d].items = cache[d].items
                        /\ cache'[d].next_item >= cache[d].next_item
                        /\ resolved'[t].kind = "Ok" =>
                              resolved'[t].addr = cache[d].items[cache[d].next_item + 1]
                   ELSE /\ cache'[d].items = res[t]
                        /\ res[t] # <<>> =>
                              /\ resolved'[t] = Ok(res[t][1])
                              /\ cache'[d].next_item \in {1, 2}]_vars

\* A resolve has returned from another caller's entry, its own lookup
\* result (a different list) discarded.
C14_OwnResultDiscarded ==
    \E t \in Tasks :
        /\ pc[t] = "resolved" /\ res[t] # NoLookup
        /\ dom[t] \in DOMAIN cache
        /\ cache[dom[t]].items # res[t]
        /\ resolved[t].kind = "Ok"

\* C15: cursor invariant. Every cache entry's cursor is at least 0 and at
\* most the length of the entry's address list.
C15_CursorWithinList ==
    \A d \in DOMAIN cache :
        /\ 0 <= cache[d].next_item
        /\ cache[d].next_item <= Len(cache[d].items)

\* C16: mutual exclusion on the cache. At most one task is between taking
\* the lock and dropping its guard, that task is the lock's holder, and
\* every step that reads the map (the eviction check, the lookup by key,
\* the selection) or changes it or a record is a step of the holder.
C16_MutualExclusion ==
    [][/\ Cardinality({t \in Tasks : Holding(t)}) <= 1
       /\ \A t \in Tasks : Holding(t) <=> lock = t
       /\ cache' # cache =>
            \E t \in Tasks : lock = t /\ Holding(t) /\ pc'[t] # pc[t]
       /\ \A t \in Tasks :
            (pc[t] \in {"evict", "check", "insert"} /\ pc'[t] # pc[t]) => lock = t]_vars

\* One task is in its critical section on a domain while the other waits
\* for the lock to work on the same domain.
C16_ContendedLock ==
    \E t \in Tasks :
        /\ pc[t] = "insert" /\ lock = t
        /\ pc[OtherTask(t)] \in {"lock1", "lock2"}
        /\ dom[OtherTask(t)] = dom[t]

\* C17: cache hit needs no I/O. A resolve that finds an entry for its
\* domain after the eviction check holds the lock, and its next step
\* selects an address and returns: it performs no lookup and takes the lock
\* no second time.
C17_HitWithoutLookup ==
    [][\A t \in Tasks :
          (pc[t] = "check" /\ dom[t] \in DOMAIN cache) =>
            /\ lock = t
            /\ pc'[t] \in {"check", "resolved"}
            /\ pc'[t] = "check" => (cache' = cache /\ lock' = t)
            /\ pc'[t] = "resolved" =>
                  /\ res'[t] = NoLookup
                  /\ resolved'[t].kind \in {"Ok", "DnsNameNotResolved"}
                  /\ lock' = "free"]_vars

\* A resolve has returned an address from the cache without a lookup.
C17_HitReturned ==
    \E t \in Tasks :
        /\ pc[t] = "resolved" /\ res[t] = NoLookup
        /\ resolved[t].kind = "Ok"

\* C18: the proxy connection is consumed. A call that opened a connection
\* and returned has either returned Ok, its tunnel being that connection
\* (bare for HTTP, inside the SOCKS stream for SOCKS), or returned a
\* handshake failure with the connection dropped; a task that is in no
\* call holds no connection.
C18_ProxyConnectionConsumed ==
    \A t \in Tasks :
        /\ (pc[t] = "done" /\ ret[t].kind = "Ok") =>
              conn[t] = IF Variant(proxy[t].kind) = "socks"
                        THEN "Socks5Stream" ELSE "TcpStream"
        /\ (pc[t] = "done" /\ ret[t].kind # "Ok") => conn[t] \in {"none", "dropped"}
        /\ (pc[t] = "done" /\ hs[t] # <<>> /\ ret[t].kind # "Ok") => conn[t] = "dropped"
        /\ conn[t] = "none" <=> stages[t] \in {<<>>, <<Stage("resolve", TRUE)>>,
                                                <<Stage("resolve", FALSE)>>,
                                                <<Stage("resolve", TRUE), Stage("tcp", FALSE)>>}
        /\ pc[t] = "idle" => conn[t] = "none"

\* A call has returned the failure of its second SOCKS step, the connection
\* dropped.
C18_DroppedAfterFailure ==
    \E t \in Tasks :
        /\ pc[t] = "done"
        /\ Len(hs[t]) = 2 /\ hs[t][2].out # "Ok"
        /\ conn[t] = "dropped"

\* C19: lookup I/O failure. The step in which a resolve's lookup fails
\* returns the IO kind, changes no cache entry and inserts none, and the
\* task does not hold the lock before or after it.
C19_LookupFailure ==
    [][\A t \in Tasks :
          (pc[t] = "lookup" /\ pc'[t] = "resolved") =>
            /\ resolved'[t] = Err("IO")
            /\ res'[t] = NoLookup
            /\ cache' = cache
            /\ lock # t /\ lock' # t]_vars

\* A first-time resolve has returned IO and its domain has no entry, while
\* the cache holds others.
C19_FailedLookupReturned ==
    \E t \in Tasks :
        /\ pc[t] = "resolved" /\ resolved[t] = Err("IO")
        /\ dom[t] \notin DOMAIN cache
        /\ Size(cache) > 0

(***************************************************************************)
(* Termination of resolve_dns.  The callers of SpecLive resolve the        *)
(* domains of LiveDomains.  tokio's Mutex queues its waiters first in,     *)
(* first out, so a task that waits for the lock gets it although the lock  *)
(* is taken again and again in between: strong fairness on the two         *)
(* acquisitions.  A task that is not waiting runs on: weak fairness on the *)
(* steps under the lock, and on the completion of the lookup, which the    *)
(* system resolver ends with an answer or an error.  Calling and taking    *)
(* the result are the caller's choice and carry no fairness.               *)
(***************************************************************************)
LiveDomains == {"d1", "d2", "d3"}

NextLive ==
    \E t \in Tasks :
        \/ \E d \in LiveDomains : CallResolve(t, d)
        \/ Resolve(t)
        \/ ResolveReturn(t)

Fairness ==
    \A t \in Tasks :
        /\ SF_vars(Acquire1(t))
        /\ SF_vars(Acquire2(t))
        /\ WF_vars(Evict(t))
        /\ WF_vars(Hit(t))
        /\ WF_vars(Miss(t))
        /\ WF_vars(LookupOk(t) \/ LookupErr(t))
        /\ WF_vars(InsertSelect(t))

SpecLive == Init /\ [][NextLive]_vars /\ Fairness

\* C20: resolve terminates without deadlock. Every resolve call in progress
\* eventually returns; a task that waits to acquire the lock never holds
\* it; and the lock is free whenever no resolve call is in progress.
C20_ResolveTerminates ==
    /\ \A t \in Tasks : InResolve(t) ~> pc[t] = "resolved"
    /\ [](\A t \in Tasks : pc[t] \in {"lock1", "lock2"} => lock # t)
    /\ []((\A t \in Tasks : ~InResolve(t)) => lock = "free")

\* Two calls that were in progress together have both looked their domain
\* up and returned, and the lock is free.
C20_BothReturned ==
    /\ \A t \in Tasks : pc[t] = "resolved" /\ res[t] # NoLookup
    /\ dom["t1"] = dom["t2"]
    /\ lock = "free"

(***************************************************************************)
(* Claims on the address the proxy connection is opened to.                *)
(***************************************************************************)

\* C21: the proxy port is honoured. Whenever connect has given an address
\* to TcpStream::connect, the address's port is the descriptor's port,
\* whether the descriptor's address is a domain name or a literal.
C21_ProxyPortHonoured ==
    \A t \in Tasks :
        (proxy[t] # NoProxy /\ peer[t] # NoAddr) => peer[t].port = proxy[t].port

\* The connection to a domain-named proxy has been opened on the port of
\* the lookup, which is not the descriptor's.
C21_DomainProxyOnLookupPort ==
    \E t \in Tasks :
        /\ proxy[t] # NoProxy /\ IsDnsAddr(proxy[t].addr)
        /\ conn[t] = "TcpStream"
        /\ peer[t].port = LOOKUP_PORT
        /\ proxy[t].port # LOOKUP_PORT

(***************************************************************************)
(* Claims on the size of the cache under concurrent calls.                 *)
(***************************************************************************)

=============================================================================
